---- MODULE Spec2Model ----
(***************************************************************************)
(* Chatty server: JWT authentication context, the authorization logic      *)
(* layer (server/data/logic.js) and the filtered messageAdded fan-out      *)
(* (server/data/resolvers.js, server/index.js).                            *)
(*                                                                         *)
(* One action is one handler run: the transport builds the context from    *)
(* the presented token, the resolver calls the logic function, and the     *)
(* resolver's trailing publish is part of the same action.  `last' records *)
(* what the handler was given and what it returned.                        *)
(*                                                                         *)
(* Not modelled: badgeCount increments and push notifications sent by      *)
(* createMessage (no state read by any other handler), message text.       *)
(***************************************************************************)
EXTENDS Integers, Sequences, FiniteSets, TLC

\* ---------------------------------------------------------------- bounds
NumUsers == 2          \* seeded identities 1..NumUsers
MaxGroups == 2         \* group ids handed out: 1 (seeded) .. MaxGroups
MaxMsgs == 1           \* message ids handed out: 1..MaxMsgs
MaxVersion == 2        \* token-versions 1..MaxVersion
MaxSubs == 1           \* established messageAdded subscriptions
MaxLen == 2            \* length of a requested groupIds list
MaxSignups == 2        \* signup requests that get past the email lookup
MaxSent == 2           \* messages created in the group the Messages screen shows

Users == 1..NumUsers
GroupIds == 1..MaxGroups
MsgIds == 1..MaxMsgs
None == 0              \* null / undefined
Names == {"n0", "n1"}

VARIABLES
    version,      \* Users.version column
    regId,        \* Users.registrationId column
    groups,       \* rows of Groups: id -> name
    nextGroupId,  \* Groups autoincrement
    members,      \* rows of GroupUser: <<groupId, userId>>
    messages,     \* rows of Messages: [id, userId, groupId]
    nextMsgId,    \* Messages autoincrement
    lastReads,    \* rows of the lastRead association: <<userId, messageId>>
    conns,        \* identities holding an accepted streaming connection
    subs,         \* established messageAdded subscriptions: Seq([user, args])
    queue,        \* per subscription, events pushed by the event bus, undelivered
    delivered,    \* events sent to subscribers: [sub, id, entitled]
    published,    \* every payload published on the messageAdded topic, in order
    gsubs,        \* established groupAdded subscriptions: Seq([user, args])
    gqueue,       \* per groupAdded subscription, events pushed and undelivered
    gdelivered,   \* groupAdded events sent to subscribers: [sub, id, users]
    created,      \* rows of Users inserted by signup: Seq([id, email, version])
    hashing,      \* signup requests between their lookup and their insert: emails
    leaving,      \* leaveGroup calls between removeUser and getUsers: [id, user, token]
    propsUser,            \* client: this.props.user of AppWithNavigationState
    messagesSubscription, \* client: this.messagesSubscription
    groupSubscription,    \* client: this.groupSubscription
    cacheMessages,        \* client: group.messages of GROUP_QUERY in the cache, ids
    sentIds,              \* client: ids of the messages created in the open group
    own,                  \* client: those of them the current user created
    results,              \* client: createMessage results on their way to it
    events,               \* client: messageAdded events on their way to it
    last          \* the last handler run: what it got and what it returned

signupVars == <<created, hashing>>
authVars == <<version, regId, signupVars>>
dbVars == <<groups, nextGroupId, members, messages, nextMsgId, lastReads>>
gsubVars == <<gsubs, gqueue, gdelivered>>
subVars == <<conns, subs, queue, delivered, published, gsubVars>>
appVars == <<propsUser, messagesSubscription, groupSubscription>>
screenVars == <<cacheMessages, sentIds, own, results, events>>
clientVars == <<appVars, screenVars>>
vars == <<authVars, dbVars, subVars, clientVars, leaving, last>>

Range(f) == {f[i] : i \in DOMAIN f}

\* ------------------------------------------------------------ user rows
Email(u) == <<"mail", u>>
\* the addresses a client may type: those of the seeded users and fresh ones
Emails == {Email(k) : k \in 1..(NumUsers + MaxSignups)}
Friends(u) == Users \ {u}

\* ---------------------------------------------------------- token codec
NoClaims == [id |-> None, email |-> Email(None), version |-> None]
NoToken == [payload |-> NoClaims, sig |-> "none"]

\* jwt.sign({ id, email, version }, JWT_SECRET)
SignClaims(id, email, v) ==
    [payload |-> [id |-> id, email |-> email, version |-> v], sig |-> "JWT_SECRET"]
Sign(u, v) == SignClaims(u, Email(u), v)

\* jsonwebtoken.verify / express-jwt: the claims when the signature verifies
Verify(t) == IF t.sig = "JWT_SECRET" THEN [ok |-> TRUE, claims |-> t.payload]
             ELSE [ok |-> FALSE, claims |-> NoClaims]

\* User.findOne({ where: { id, version } })
FindOneById(id, v) == IF id \in Users THEN id ELSE None
FindOne(id, v) ==
    IF id \in Users /\ version[id] = v THEN id
    ELSE IF \E i \in DOMAIN created : created[i].id = id /\ created[i].version = v THEN id
    ELSE None

\* graphqlExpress context: req.user ? User.findOne(...) : Promise.resolve(null)
HttpContext(t) ==
    LET reqUser == Verify(t)
    IN  IF reqUser.ok THEN FindOne(reqUser.claims.id, reqUser.claims.version)
        ELSE None

\* express-jwt with credentialsRequired: false: a request without a token
\* goes on to graphqlExpress, and so does one whose token verifies; a token
\* that does not verify ends the request with UnauthorizedError invalid_token
JwtMiddlewareLenient(t) == "next"
JwtMiddlewareRequired(t) ==
    IF t.sig = "none" THEN "credentials_required"
    ELSE IF Verify(t).ok THEN "next"
    ELSE "invalid_token"
JwtMiddleware(t) ==
    IF t.sig = "none" THEN "next"
    ELSE IF Verify(t).ok THEN "next"
    ELSE "invalid_token"

\* SubscriptionServer onConnect: the context identity, or a rejection.
\* rej('Invalid Token') settles the promise; the statement after it cannot
\* settle it again.
OnConnectUnverified(t) ==
    IF t.sig = "none" THEN [out |-> "No Token", user |-> None]
    ELSE LET user == FindOne(t.payload.id, t.payload.version)
         IN  IF user # None THEN [out |-> "ok", user |-> user]
             ELSE [out |-> "No User", user |-> None]
OnConnect(t) ==
    IF t.sig = "none" THEN [out |-> "No Token", user |-> None]
    ELSE IF ~Verify(t).ok THEN [out |-> "Invalid Token", user |-> None]
    ELSE LET user == FindOne(Verify(t).claims.id, Verify(t).claims.version)
         IN  IF user # None THEN [out |-> "ok", user |-> user]
             ELSE [out |-> "No User", user |-> None]

\* what a client can put in the authorization header / connectionParams.jwt:
\* nothing, or a token this server signed.  login signs the stored version,
\* versions start at 1 and only grow, so the signed tokens of u are those
\* carrying a version up to the stored one.
Signed == UNION {{Sign(u, v) : v \in 1..version[u]} : u \in Users}
Presentable == Signed \cup {NoToken}
\* the claims of a signed token under a signature made without JWT_SECRET
Forged == {[payload |-> t.payload, sig |-> "forged"] : t \in Signed}

\* User.findOne({ where: { email } }): the first matching row, or none
NoUser == [id |-> None, email |-> Email(None), version |-> None]
FindByEmailSeeded(email) ==
    IF \E u \in Users : Email(u) = email
    THEN LET u == CHOOSE u \in Users : Email(u) = email
         IN  [id |-> u, email |-> email, version |-> version[u]]
    ELSE NoUser
FindByEmail(email) ==
    IF \E u \in Users : Email(u) = email
    THEN LET u == CHOOSE u \in Users : Email(u) = email
         IN  [id |-> u, email |-> email, version |-> version[u]]
    ELSE IF \E i \in DOMAIN created : created[i].email = email
    THEN created[CHOOSE i \in DOMAIN created :
                    /\ created[i].email = email
                    /\ \A j \in 1..(i - 1) : created[j].email # email]
    ELSE NoUser

\* ------------------------------------------------------- result records
Ok(d) == [out |-> "ok", data |-> d]
Reject(e) == [out |-> e, data |-> None]

\* what a handler run leaves behind: the presented token, the context
\* identity built from it, the arguments, the outcome ("ok" or the error) and
\* the returned value under the name of what it is; nothing on an error
NoArg == [none |-> TRUE]
NoData == [none |-> TRUE]
\* what a request/response handler answers: the middleware's error, or the
\* resolver's result
Http(t, res) == IF JwtMiddleware(t) = "next" THEN res ELSE Reject(JwtMiddleware(t))

Record(op, t, ctxUser, arg, kind, res) ==
    [op |-> op, token |-> t, ctx |-> ctxUser, arg |-> arg, out |-> res.out,
     data |-> IF res.out = "ok" THEN (kind :> res.data) ELSE NoData]

\* reusable function to check for a user with context
getAuthenticatedUser(ctxUser) ==
    IF ctxUser = None THEN Reject("Unauthorized") ELSE Ok(ctxUser)

\* ------------------------------------------------------------ userLogic
\* user.getGroups()
GroupsOf(u) == {g \in DOMAIN groups : <<g, u>> \in members}
\* Message.findAll({ where: { userId } })
MessagesOf(u) == {m \in messages : m.userId = u}

userLogic_email(user, ctxUser) ==
    LET auth == getAuthenticatedUser(ctxUser)
    IN  IF auth.out # "ok" THEN auth
        ELSE IF auth.data = user THEN Ok(Email(auth.data))
        ELSE Reject("Unauthorized")

userLogic_friends(user, ctxUser) ==
    LET auth == getAuthenticatedUser(ctxUser)
    IN  IF auth.out # "ok" THEN auth
        ELSE IF auth.data # user THEN Reject("Unauthorized")
        ELSE Ok(Friends(user))

userLogic_groups(user, ctxUser) ==
    LET auth == getAuthenticatedUser(ctxUser)
    IN  IF auth.out # "ok" THEN auth
        ELSE IF auth.data # user THEN Reject("Unauthorized")
        ELSE Ok(GroupsOf(user))

\* the jwt attribute exists only on the entity login/signup return
userLogic_jwt(user, ctxUser) == Ok(None)

userLogic_messagesNoCheck(user, ctxUser) ==
    LET auth == getAuthenticatedUser(ctxUser)
    IN  IF auth.out # "ok" THEN auth ELSE Ok(MessagesOf(user))
userLogic_messages(user, ctxUser) ==
    LET auth == getAuthenticatedUser(ctxUser)
    IN  IF auth.out # "ok" THEN auth
        ELSE IF auth.data # user THEN Reject("Unauthorized")
        ELSE Ok(MessagesOf(user))

userLogic_registrationId(user, ctxUser) ==
    LET auth == getAuthenticatedUser(ctxUser)
    IN  IF auth.out # "ok" THEN auth
        ELSE IF auth.data = user THEN Ok(regId[auth.data])
        ELSE Reject("Unauthorized")

\* User.findOne({ where: args }), the resolver before the logic layer
userLogic_queryFindOne(args, ctxUser) ==
    LET auth == getAuthenticatedUser(ctxUser)
    IN  IF auth.out # "ok" THEN auth
        ELSE IF args.id # None THEN Ok(args.id)
        ELSE IF \E u \in Users : Email(u) = args.email
             THEN Ok(CHOOSE u \in Users : Email(u) = args.email)
        ELSE Ok(None)
userLogic_query(args, ctxUser) ==
    LET auth == getAuthenticatedUser(ctxUser)
    IN  IF auth.out # "ok" THEN auth
        ELSE IF auth.data = args.id \/ Email(auth.data) = args.email
             THEN Ok(auth.data)
        ELSE Reject("Unauthorized")

UserFields == {"email", "friends", "groups", "jwt", "messages", "registrationId"}
SelfAccessFields == UserFields \ {"jwt"}

\* Resolvers.User.<field>
ResolveUserField(f, user, ctxUser) ==
    CASE f = "email" -> userLogic_email(user, ctxUser)
      [] f = "friends" -> userLogic_friends(user, ctxUser)
      [] f = "groups" -> userLogic_groups(user, ctxUser)
      [] f = "jwt" -> userLogic_jwt(user, ctxUser)
      [] f = "messages" -> userLogic_messages(user, ctxUser)
      [] f = "registrationId" -> userLogic_registrationId(user, ctxUser)

\* ----------------------------------------------------------- queries
\* user.getGroups({ where: { id: <id or $in list> } })
UserGroupsIn(u, ids) == {g \in DOMAIN groups : g \in ids /\ <<g, u>> \in members}

\* Group.findOne({ where: { id }, include: [{ model: User, where: { id: user.id } }] })
FindGroupOfMember(id, u) ==
    IF id \in DOMAIN groups /\ <<id, u>> \in members THEN id ELSE None

\* group.getUsers()
UsersOf(g) == {u \in Users : <<g, u>> \in members}
\* Message.findAll({ where: { groupId } })
MessagesIn(g) == {m \in messages : m.groupId = g}
\* user.getLastRead({ where: { groupId } }): the messages of the group that u
\* has marked
LastReadIn(u, g) == {m \in MessagesIn(g) : <<u, m.id>> \in lastReads}

Max(S) == CHOOSE x \in S : \A y \in S : y <= x

\* ---------------------------------------------------------- messageLogic
\* getAuthenticatedUser, then user.getGroups({ where: { id: groupId } }):
\* the message to create, or the rejection
messageLogic_createMessageNoCheck(groupId, ctxUser) ==
    LET auth == getAuthenticatedUser(ctxUser)
    IN  IF auth.out # "ok" THEN auth
        ELSE Ok([id |-> nextMsgId, userId |-> auth.data, groupId |-> groupId])
messageLogic_createMessage(groupId, ctxUser) ==
    LET auth == getAuthenticatedUser(ctxUser)
    IN  IF auth.out # "ok" THEN auth
        ELSE IF UserGroupsIn(auth.data, {groupId}) # {}
             THEN Ok([id |-> nextMsgId, userId |-> auth.data, groupId |-> groupId])
        ELSE Reject("Unauthorized")

\* message.getUser({ attributes: ['id', 'username'] })
messageLogic_from(message, ctxUser) == Ok(message.userId)
\* message.getGroup({ attributes: ['id', 'name'] })
messageLogic_to(message, ctxUser) ==
    Ok(IF message.groupId \in DOMAIN groups THEN message.groupId ELSE None)

\* ------------------------------------------------------------ groupLogic
groupLogic_users(group, ctxUser) == Ok(UsersOf(group))
groupLogic_messages(group, ctxUser) == Ok(MessagesIn(group))

groupLogic_lastRead(group, ctxUser) ==
    LET auth == getAuthenticatedUser(ctxUser)
    IN  IF auth.out # "ok" THEN auth
        ELSE LET lr == {m.id : m \in LastReadIn(auth.data, group)}
             IN  IF lr # {} THEN Ok(Max(lr)) ELSE Ok(None)

\* message ids grow with createdAt
groupLogic_unreadCount(group, ctxUser) ==
    LET auth == getAuthenticatedUser(ctxUser)
    IN  IF auth.out # "ok" THEN auth
        ELSE LET lr == {m.id : m \in LastReadIn(auth.data, group)}
             IN  IF lr = {} THEN Ok(Cardinality(MessagesIn(group)))
                 ELSE Ok(Cardinality({m \in MessagesIn(group) : m.id > Max(lr)}))

groupLogic_queryUnscoped(id, ctxUser) ==
    LET auth == getAuthenticatedUser(ctxUser)
    IN  IF auth.out # "ok" THEN auth
        ELSE Ok(IF id \in DOMAIN groups THEN id ELSE None)
groupLogic_query(id, ctxUser) ==
    LET auth == getAuthenticatedUser(ctxUser)
    IN  IF auth.out # "ok" THEN auth ELSE Ok(FindGroupOfMember(id, auth.data))

\* the event bus: pubsub.publish(MESSAGE_ADDED_TOPIC, { messageAdded: message })
\* pushes the payload to the iterator of every established subscription.
\* `audience' remembers who was a member of the message's group at that time.
Publish(message) ==
    /\ published' = Append(published, message)
    /\ queue' = [s \in DOMAIN queue |->
                    Append(queue[s], [payload |-> message,
                                      audience |-> UsersOf(message.groupId)])]

\* ------------------------------------------------------ subscriptionLogic
\* the groupIds argument of a messageAdded subscription: a list of Int, or
\* absent (given = FALSE)
NoGroupIds == [given |-> FALSE, ids |-> <<>>]
GroupIdLists == UNION {[1..n -> GroupIds] : n \in 0..MaxLen}
SubArgs == {[given |-> TRUE, ids |-> l] : l \in GroupIdLists} \cup {NoGroupIds}

\* args.groupIds.length > groups.length
TooManyNoneFound(groupIds, found) == Len(groupIds) > 0 /\ found = {}
TooMany(groupIds, found) == Len(groupIds) > Cardinality(found)

\* the subscription parameters with the context attached, or the rejection
subscriptionLogic_messageAdded(args, ctxUser) ==
    LET auth == getAuthenticatedUser(ctxUser)
    IN  IF auth.out # "ok" THEN auth
        ELSE IF ~args.given THEN Reject("TypeError")   \* null.length
        ELSE IF TooMany(args.ids, UserGroupsIn(auth.data, Range(args.ids)))
             THEN Reject("Unauthorized")
        ELSE Ok([context |-> ctxUser, args |-> args])

\* Array.prototype.indexOf and the bitwise not of JavaScript
IndexOf(list, x) ==
    IF \E i \in DOMAIN list : list[i] = x
    THEN (CHOOSE i \in DOMAIN list : list[i] = x /\ \A j \in 1..(i - 1) : list[j] # x) - 1
    ELSE -1
BitNot(n) == -n - 1

\* withFilter predicate of Subscription.messageAdded:
\* Boolean(args.groupIds && ~args.groupIds.indexOf(payload.messageAdded.groupId))
messageAddedFilterNoTilde(payload, args) ==
    args.given /\ IndexOf(args.ids, payload.groupId) # 0
messageAddedFilterGiven(payload, args) == args.given
messageAddedFilter(payload, args) ==
    args.given /\ BitNot(IndexOf(args.ids, payload.groupId)) # 0

\* ------------------------------------------------------------- Init
\* no handler is running
\* ------------------------------------------------------- client state
\* props.user of AppWithNavigationState: undefined while logged out or
\* loading, else the user of USER_QUERY with the ids of its groups
NoPropsUser == [present |-> FALSE, id |-> None, groups |-> {}]
PropsUsers == {NoPropsUser} \cup
              {[present |-> TRUE, id |-> u, groups |-> G] : u \in Users, G \in SUBSET GroupIds}

\* this.messagesSubscription / this.groupSubscription: unassigned, or the
\* unsubscribe handle subscribeToMore returned, with the variables of its
\* subscription and whether the subscription is still running
NoMessagesSubscription == [assigned |-> FALSE, active |-> FALSE, groupIds |-> {}]
NoGroupSubscription == [assigned |-> FALSE, active |-> FALSE, userId |-> None]

\* calling an unsubscribe handle
Unsubscribe(handle) == [handle EXCEPT !.active = FALSE]

\* subscribeToMessages: variables { groupIds: map(user.groups, 'id') }
subscribeToMessages(user) == [assigned |-> TRUE, active |-> TRUE, groupIds |-> user.groups]
\* subscribeToGroups: variables { userId: user.id }
subscribeToGroups(user) == [assigned |-> TRUE, active |-> TRUE, userId |-> user.id]

IdleRec == Record("idle", NoToken, None, NoArg, "none", Reject("none"))
Idle == last.op = "idle"

\* the seeded database (one group, no seeded messages): the group holds every
\* seeded user, all of them friends, every password at version 1; nobody
\* connected
Init ==
    /\ version = [u \in Users |-> 1]
    /\ regId = [u \in Users |-> None]
    /\ created = <<>>
    /\ hashing = <<>>
    /\ leaving = {}
    /\ groups = (1 :> "n0")
    /\ nextGroupId = 2
    /\ members = {<<1, u>> : u \in Users}
    /\ messages = {}
    /\ nextMsgId = 1
    /\ lastReads = {}
    /\ conns = {}
    /\ subs = <<>>
    /\ queue = <<>>
    /\ delivered = {}
    /\ published = <<>>
    /\ gsubs = <<>>
    /\ gqueue = <<>>
    /\ gdelivered = {}
    /\ propsUser = NoPropsUser
    /\ messagesSubscription = NoMessagesSubscription
    /\ groupSubscription = NoGroupSubscription
    /\ cacheMessages = <<>>
    /\ sentIds = {}
    /\ own = {}
    /\ results = {}
    /\ events = {}
    /\ last = IdleRec

\* the handler's promise has settled and the response is written
Respond ==
    /\ ~Idle
    /\ last' = IdleRec
    /\ UNCHANGED <<clientVars, leaving, authVars, dbVars, subVars>>

\* ------------------------------------------------- authentication actions
\* Resolvers.Mutation.login with a stored email: bcrypt.compare decides
Resolvers_loginUnversioned(email, passwordOk) ==
    LET user == FindByEmail(email)
    IN  IF user.id = None THEN Reject("email not found")
        ELSE IF passwordOk THEN Ok(SignClaims(user.id, user.email, None))
        ELSE Reject("password incorrect")
Resolvers_login(email, passwordOk) ==
    LET user == FindByEmail(email)
    IN  IF user.id = None THEN Reject("email not found")
        ELSE IF passwordOk THEN Ok(SignClaims(user.id, user.email, user.version))
        ELSE Reject("password incorrect")

Login(t, email, passwordOk) ==
    /\ Idle
    /\ last' = Record("login", t, HttpContext(t),
                      [email |-> email, password |-> passwordOk], "token",
                      Http(t, Resolvers_login(email, passwordOk)))
    /\ UNCHANGED <<clientVars, leaving, authVars, dbVars, subVars>>

\* the row signup inserts: ids follow those of the seeded users
NewRow(email) == [id |-> NumUsers + Len(created) + 1, email |-> email, version |-> 1]

\* jwt.sign({ id, email, version: 1 }, JWT_SECRET)
SignupTokenUnversioned(user) == SignClaims(user.id, user.email, None)
SignupToken(user) == SignClaims(user.id, user.email, 1)

\* Resolvers.Mutation.signup up to bcrypt.hash: User.findOne({ where: { email } })
\* either rejects the request or lets it go on to hash the password
SignupLookup(t, email) ==
    LET res == Http(t, IF FindByEmail(email).id = None THEN Ok(None)
                       ELSE Reject("email already exists"))
    IN  /\ Idle
        /\ res.out = "ok" => Len(created) + Len(hashing) < MaxSignups
        /\ IF res.out = "ok"
           THEN /\ hashing' = Append(hashing, [email |-> email, token |-> t])
                /\ last' = last
           ELSE /\ hashing' = hashing
                /\ last' = Record("signup", t, HttpContext(t), [email |-> email],
                                  "token", res)
        /\ UNCHANGED <<clientVars, leaving, version, regId, created, dbVars, subVars>>

\* Resolvers.Mutation.signup from User.create on, for the i-th request that
\* is hashing
SignupCreate(i) ==
    /\ Idle
    /\ i \in DOMAIN hashing
    /\ hashing' = [j \in 1..(Len(hashing) - 1) |->
                      IF j < i THEN hashing[j] ELSE hashing[j + 1]]
    /\ created' = Append(created, NewRow(hashing[i].email))
    /\ last' = Record("signup", hashing[i].token, HttpContext(hashing[i].token),
                      [email |-> hashing[i].email], "token",
                      Ok(SignupToken(NewRow(hashing[i].email))))
    /\ UNCHANGED <<clientVars, leaving, version, regId, dbVars, subVars>>

\* a new password is set for u: the version counter increments
ChangePassword(u) ==
    /\ Idle
    /\ version[u] < MaxVersion
    /\ version' = [version EXCEPT ![u] = @ + 1]
    /\ last' = Record("changePassword", NoToken, None, [user |-> u], "changed", Ok(None))
    /\ UNCHANGED <<clientVars, leaving, regId, signupVars, dbVars, subVars>>

\* a request/response call resolving one field of a user entity
UserField(t, f, user) ==
    /\ Idle
    /\ last' = Record("userField", t, HttpContext(t), [field |-> f, user |-> user], f,
                      Http(t, ResolveUserField(f, user, HttpContext(t))))
    /\ UNCHANGED <<clientVars, leaving, authVars, dbVars, subVars>>

\* Resolvers.Query.user
UserQuery(t, args) ==
    /\ Idle
    /\ last' = Record("user", t, HttpContext(t), args, "user",
                      Http(t, userLogic_query(args, HttpContext(t))))
    /\ UNCHANGED <<clientVars, leaving, authVars, dbVars, subVars>>

\* userLogic.updateUser (registrationId only)
UpdateUser(t, registrationId) ==
    LET ctxUser == HttpContext(t)
        auth == Http(t, getAuthenticatedUser(ctxUser))
    IN  /\ Idle
        /\ IF auth.out = "ok"
           THEN /\ regId' = [regId EXCEPT ![ctxUser] = registrationId]
                /\ last' = Record("updateUser", t, ctxUser,
                                  [registrationId |-> registrationId], "user",
                                  Ok(ctxUser))
           ELSE /\ regId' = regId
                /\ last' = Record("updateUser", t, ctxUser,
                                  [registrationId |-> registrationId], "user", auth)
        /\ UNCHANGED <<clientVars, leaving, version, signupVars, dbVars, subVars>>

\* a streaming connection attempt carrying connectionParams.jwt = t
WsConnect(t) ==
    LET r == OnConnect(t)
    IN  /\ Idle
        /\ conns' = IF r.out = "ok" THEN conns \cup {r.user} ELSE conns
        /\ last' = Record("connect", t, r.user, NoArg, "user",
                          [out |-> r.out, data |-> r.user])
        /\ UNCHANGED <<clientVars, leaving, authVars, dbVars, queue, subs, delivered, published, gsubVars>>

\* ------------------------------------------------------- group actions
\* Resolvers.Mutation.createMessage: messageLogic.createMessage, then publish
CreateMessage(t, groupId) ==
    LET ctxUser == HttpContext(t)
        res == Http(t, messageLogic_createMessage(groupId, ctxUser))
    IN  /\ Idle
        /\ res.out = "ok" => nextMsgId <= MaxMsgs
        /\ IF res.out = "ok"
           THEN /\ messages' = messages \cup {res.data}
                /\ nextMsgId' = nextMsgId + 1
                /\ Publish(res.data)
           ELSE UNCHANGED <<messages, nextMsgId, published, queue>>
        /\ last' = Record("createMessage", t, ctxUser, [groupId |-> groupId], "message", res)
        /\ UNCHANGED <<clientVars, leaving, authVars, groups, nextGroupId, members, lastReads,
                       conns, subs, delivered, gsubVars>>

\* rows of a query in id order
RECURSIVE ToList(_)
ToList(S) ==
    IF S = {} THEN <<>>
    ELSE LET x == CHOOSE y \in S : \A z \in S : y <= z
         IN  <<x>> \o ToList(S \ {x})

\* the event bus: pubsub.publish(GROUP_ADDED_TOPIC, { groupAdded: group })
\* pushes the payload to the iterator of every established subscription
PublishGroup(group) ==
    gqueue' = [s \in DOMAIN gqueue |-> Append(gqueue[s], group)]

\* Resolvers.Mutation.createGroup: groupLogic.createGroup, then publish.
\* group.users = [user, ...friends]
\* user.getFriends({ where: { id: { $in: userIds } } })
GetFriendsUnfiltered(user, userIds) == userIds
GetFriends(user, userIds) == Friends(user) \cap userIds

CreateGroup(t, name, userIds) ==
    LET ctxUser == HttpContext(t)
        auth == Http(t, getAuthenticatedUser(ctxUser))
        friends == GetFriends(ctxUser, userIds)
        users == <<ctxUser>> \o ToList(friends)
    IN  /\ Idle
        /\ auth.out = "ok" => nextGroupId <= MaxGroups
        /\ IF auth.out = "ok"
           THEN /\ groups' = (nextGroupId :> name) @@ groups
                /\ nextGroupId' = nextGroupId + 1
                /\ members' = members \cup {<<nextGroupId, u>> : u \in Range(users)}
                /\ PublishGroup([id |-> nextGroupId, users |-> users])
                /\ last' = Record("createGroup", t, ctxUser,
                                  [name |-> name, userIds |-> userIds], "created",
                                  Ok([id |-> nextGroupId, users |-> users]))
           ELSE /\ UNCHANGED <<groups, nextGroupId, members, gqueue>>
                /\ last' = Record("createGroup", t, ctxUser,
                                  [name |-> name, userIds |-> userIds], "created", auth)
        /\ UNCHANGED <<clientVars, leaving, authVars, messages, nextMsgId, lastReads,
                       conns, subs, queue, delivered, published, gsubs, gdelivered>>

\* rows of the lastRead association die with their message
LiveLastReads(msgs) == {lr \in lastReads : lr[2] \in {m.id : m \in msgs}}

\* Resolvers.Mutation.deleteGroup
DeleteGroup(t, id) ==
    LET ctxUser == HttpContext(t)
        auth == Http(t, getAuthenticatedUser(ctxUser))
        group == IF auth.out = "ok" THEN FindGroupOfMember(id, auth.data) ELSE None
    IN  /\ Idle
        /\ IF auth.out # "ok"
           THEN /\ UNCHANGED dbVars
                /\ last' = Record("deleteGroup", t, ctxUser, [id |-> id], "group",
                                  auth)
           ELSE IF group = None
           THEN \* group.getUsers() on null
                /\ UNCHANGED dbVars
                /\ last' = Record("deleteGroup", t, ctxUser, [id |-> id], "group",
                                  Reject("TypeError"))
           ELSE /\ members' = {r \in members : r[1] # group}
                /\ messages' = messages \ MessagesIn(group)
                /\ lastReads' = LiveLastReads(messages \ MessagesIn(group))
                /\ groups' = [g \in DOMAIN groups \ {group} |-> groups[g]]
                /\ UNCHANGED <<nextGroupId, nextMsgId>>
                /\ last' = Record("deleteGroup", t, ctxUser, [id |-> id], "group",
                                  Ok(group))
        /\ UNCHANGED <<clientVars, leaving, authVars, subVars>>

\* Resolvers.Mutation.leaveGroup
\* if (!users.length): the last user is leaving
LastUserLeftNever(users) == FALSE
LastUserLeft(users) == users = {}

LeaveGroup(t, id) ==
    LET ctxUser == HttpContext(t)
        auth == Http(t, getAuthenticatedUser(ctxUser))
        group == IF auth.out = "ok" THEN FindGroupOfMember(id, auth.data) ELSE None
        left == members \ {<<id, ctxUser>>}
    IN  /\ Idle
        /\ IF auth.out # "ok"
           THEN /\ UNCHANGED dbVars
                /\ last' = Record("leaveGroup", t, ctxUser, [id |-> id], "group",
                                  auth)
           ELSE IF group = None
           THEN \* Promise.reject('No group found') is not returned;
                \* group.removeUser on null
                /\ UNCHANGED dbVars
                /\ last' = Record("leaveGroup", t, ctxUser, [id |-> id], "group",
                                  Reject("TypeError"))
           ELSE /\ members' = left
                   \* if the last user is leaving, remove the group
                /\ groups' = IF LastUserLeft({r \in left : r[1] = group})
                             THEN [g \in DOMAIN groups \ {group} |-> groups[g]]
                             ELSE groups
                /\ UNCHANGED <<nextGroupId, messages, nextMsgId, lastReads>>
                /\ last' = Record("leaveGroup", t, ctxUser, [id |-> id], "group",
                                  Ok(id))
        /\ UNCHANGED <<clientVars, leaving, authVars, subVars>>

\* Resolvers.Mutation.updateGroup.  lastRead = None: the name is updated.
\* Otherwise user.addLastRead(lastRead) is called while the chain is built,
\* next to getLastRead/removeLastRead: when the marked message is one of the
\* group's, the removal may or may not take the new row with it (lost).
\* groupLogic.leaveGroup up to group.removeUser(user.id), for a member: other
\* calls may run before its continuation does
LeaveGroupRemoveUser(t, id) ==
    LET ctxUser == HttpContext(t)
    IN  /\ Idle
        /\ JwtMiddleware(t) = "next"
        /\ ctxUser # None
        /\ FindGroupOfMember(id, ctxUser) # None
        /\ members' = members \ {<<id, ctxUser>>}
        /\ leaving' = leaving \cup {[id |-> id, user |-> ctxUser, token |-> t]}
        /\ UNCHANGED <<clientVars, authVars, subVars, groups, nextGroupId, messages,
                       nextMsgId, lastReads, last>>

\* groupLogic.leaveGroup from group.getUsers() on
LeaveGroupGetUsers(call) ==
    /\ Idle
    /\ call \in leaving
    /\ leaving' = leaving \ {call}
    /\ groups' = IF call.id \in DOMAIN groups /\ LastUserLeft(UsersOf(call.id))
                 THEN [g \in DOMAIN groups \ {call.id} |-> groups[g]]
                 ELSE groups
    /\ last' = Record("leaveGroup", call.token, call.user, [id |-> call.id], "group",
                      Ok(call.id))
    /\ UNCHANGED <<clientVars, authVars, subVars, nextGroupId, members, messages,
                   nextMsgId, lastReads>>

UpdateGroup(t, id, name, lastRead, lost) ==
    LET ctxUser == HttpContext(t)
        auth == Http(t, getAuthenticatedUser(ctxUser))
        group == IF auth.out = "ok" THEN FindGroupOfMember(id, auth.data) ELSE None
        old == {<<ctxUser, m.id>> : m \in LastReadIn(ctxUser, id)}
        inGroup == \E m \in MessagesIn(id) : m.id = lastRead
        args == [id |-> id, name |-> name, lastRead |-> lastRead]
    IN  /\ Idle
        /\ lastRead # None => \E m \in messages : m.id = lastRead
        /\ lost => lastRead # None /\ inGroup
        /\ IF auth.out # "ok"
           THEN /\ UNCHANGED dbVars
                /\ last' = Record("updateGroup", t, ctxUser, args, "group",
                                  auth)
           ELSE IF lastRead # None
           THEN /\ lastReads' = IF lost THEN (lastReads \ old) \ {<<ctxUser, lastRead>>}
                                ELSE (lastReads \ old) \cup {<<ctxUser, lastRead>>}
                /\ UNCHANGED <<groups, nextGroupId, members, messages, nextMsgId>>
                /\ last' = Record("updateGroup", t, ctxUser, args, "group",
                                  Ok(group))
           ELSE IF group = None
           THEN \* group.update on null
                /\ UNCHANGED dbVars
                /\ last' = Record("updateGroup", t, ctxUser, args, "group",
                                  Reject("TypeError"))
           ELSE /\ groups' = [groups EXCEPT ![group] = name]
                /\ UNCHANGED <<nextGroupId, members, messages, nextMsgId, lastReads>>
                /\ last' = Record("updateGroup", t, ctxUser, args, "group",
                                  Ok(group))
        /\ UNCHANGED <<clientVars, leaving, authVars, subVars>>

\* Resolvers.Query.group
GroupQuery(t, id) ==
    /\ Idle
    /\ last' = Record("group", t, HttpContext(t), [id |-> id], "group",
                      Http(t, groupLogic_query(id, HttpContext(t))))
    /\ UNCHANGED <<clientVars, leaving, authVars, dbVars, subVars>>

GroupFields == {"users", "messages", "lastRead", "unreadCount"}

\* Resolvers.Group.<field>
ResolveGroupField(f, group, ctxUser) ==
    CASE f = "users" -> groupLogic_users(group, ctxUser)
      [] f = "messages" -> groupLogic_messages(group, ctxUser)
      [] f = "lastRead" -> groupLogic_lastRead(group, ctxUser)
      [] f = "unreadCount" -> groupLogic_unreadCount(group, ctxUser)

\* a request/response call resolving one field of a group entity
GroupField(t, f, group) ==
    /\ Idle
    /\ last' = Record("groupField", t, HttpContext(t), [field |-> f, group |-> group],
                      f, Http(t, ResolveGroupField(f, group, HttpContext(t))))
    /\ UNCHANGED <<clientVars, leaving, authVars, dbVars, subVars>>

MessageFields == {"from", "to"}

\* Resolvers.Message.<field>
ResolveMessageField(f, message, ctxUser) ==
    CASE f = "from" -> messageLogic_from(message, ctxUser)
      [] f = "to" -> messageLogic_to(message, ctxUser)

\* a request/response call resolving one field of a message entity
MessageField(t, f, message) ==
    /\ Idle
    /\ last' = Record("messageField", t, HttpContext(t),
                      [field |-> f, message |-> message.id], f,
                      Http(t, ResolveMessageField(f, message, HttpContext(t))))
    /\ UNCHANGED <<clientVars, leaving, authVars, dbVars, subVars>>

\* ------------------------------------------------------ client actions
\* AppWithNavigationState.componentWillReceiveProps(nextProps); a logged-in
\* client keeps its user until it logs out
ComponentWillReceiveProps(nextUser) ==
    LET loggedOut == ~nextUser.present
        afterLogout == IF loggedOut /\ messagesSubscription.assigned
                       THEN Unsubscribe(messagesSubscription)
                       ELSE messagesSubscription
        groupAfterLogout == IF loggedOut /\ groupSubscription.assigned
                            THEN Unsubscribe(groupSubscription)
                            ELSE groupSubscription
        changed == /\ nextUser.present
                   /\ \/ ~propsUser.present
                      \/ Cardinality(nextUser.groups) # Cardinality(propsUser.groups)
        old == IF afterLogout.assigned THEN Unsubscribe(afterLogout) ELSE afterLogout
    IN  /\ (propsUser.present /\ nextUser.present) => nextUser.id = propsUser.id
        /\ messagesSubscription' =
              IF ~changed THEN afterLogout
              ELSE IF nextUser.groups # {} THEN subscribeToMessages(nextUser)
              ELSE old
        /\ groupSubscription' =
              IF ~groupAfterLogout.assigned /\ nextUser.present
              THEN subscribeToGroups(nextUser)
              ELSE groupAfterLogout
        /\ propsUser' = nextUser
        /\ UNCHANGED <<authVars, dbVars, subVars, leaving, screenVars, last>>

\* isDuplicateMessage(newMessage, existingMessages), on message ids
isDuplicateMessageNever(id, existingMessages) == FALSE
isDuplicateMessage(id, existingMessages) ==
    id # None /\ \E i \in DOMAIN existingMessages : id = existingMessages[i]

\* both cache writers: leave the list alone on a duplicate, else unshift
Unshift(id, existingMessages) ==
    IF isDuplicateMessage(id, existingMessages) THEN existingMessages
    ELSE <<id>> \o existingMessages

\* a message is created in the group the Messages screen shows, by the
\* current user (mine) or by another member: the server publishes its
\* messageAdded event to the screen's subscription and, for the current
\* user's mutation, answers it
MessageCreated(mine) ==
    LET id == Cardinality(sentIds) + 1
    IN  /\ Cardinality(sentIds) < MaxSent
        /\ sentIds' = sentIds \cup {id}
        /\ events' = events \cup {id}
        /\ own' = IF mine THEN own \cup {id} ELSE own
        /\ results' = IF mine THEN results \cup {id} ELSE results
        /\ UNCHANGED <<authVars, dbVars, subVars, leaving, appVars, cacheMessages, last>>

\* createMessageMutation update, run with the server's result
MutationUpdate(id) ==
    /\ id \in results
    /\ results' = results \ {id}
    /\ cacheMessages' = Unshift(id, cacheMessages)
    /\ UNCHANGED <<authVars, dbVars, subVars, leaving, appVars, sentIds, own, events, last>>

\* subscribeToMore updateQuery, run with a messageAdded event
UpdateQuery(id) ==
    /\ id \in events
    /\ events' = events \ {id}
    /\ cacheMessages' = Unshift(id, cacheMessages)
    /\ UNCHANGED <<authVars, dbVars, subVars, leaving, appVars, sentIds, own, results, last>>

\* ------------------------------------------------ subscription actions
\* baseParams.context of an operation on the connection that onConnect
\* resolved to user u: the { user: Promise.resolve(user) } onConnect returned,
\* with no further lookup
OnOperationContextInitialVersion(u) == IF version[u] = 1 THEN u ELSE None
OnOperationContext(u) == u

\* SubscriptionServer onOperation for a messageAdded subscription issued on
\* a connection whose context identity is u
SubscribeMessageAdded(u, args) ==
    LET res == subscriptionLogic_messageAdded(args, OnOperationContext(u))
    IN  /\ Idle
        /\ u \in conns
        /\ res.out = "ok" => Len(subs) < MaxSubs
        /\ IF res.out = "ok"
           THEN /\ subs' = Append(subs, [user |-> u, args |-> args])
                /\ queue' = Append(queue, <<>>)
           ELSE UNCHANGED <<subs, queue>>
        /\ last' = Record("subscribe", NoToken, u, args, "subscription", res)
        /\ UNCHANGED <<clientVars, leaving, authVars, dbVars, conns, delivered, published, gsubVars>>

\* the iterator of subscription s takes its next event through the filter;
\* it runs as soon as an event is queued, whatever else is in flight
Deliver(s) ==
    /\ s \in DOMAIN subs
    /\ queue[s] # <<>>
    /\ queue' = [queue EXCEPT ![s] = Tail(@)]
    /\ delivered' =
         IF messageAddedFilter(Head(queue[s]).payload, subs[s].args)
         THEN delivered \cup {[sub |-> s, id |-> Head(queue[s]).payload.id,
                               entitled |-> subs[s].user \in Head(queue[s]).audience]}
         ELSE delivered
    /\ last' = Record("deliver", NoToken, subs[s].user, [sub |-> s], "event",
                      Ok([payload |-> Head(queue[s]).payload,
                          sent |-> messageAddedFilter(Head(queue[s]).payload,
                                                      subs[s].args)]))
    /\ UNCHANGED <<clientVars, leaving, authVars, dbVars, conns, subs, published, gsubVars>>

\* subscriptionLogic.groupAdded: args.userId is absent (None) or an Int
subscriptionLogic_groupAdded(args, ctxUser) ==
    LET auth == getAuthenticatedUser(ctxUser)
    IN  IF auth.out # "ok" THEN auth
        ELSE IF auth.data # args.userId THEN Reject("Unauthorized")
        ELSE Ok([context |-> ctxUser, args |-> args])

\* withFilter predicate of Subscription.groupAdded:
\* Boolean(args.userId && ~map(payload.groupAdded.users, 'id').indexOf(args.userId))
groupAddedFilterGiven(payload, args) == args.userId # None
groupAddedFilter(payload, args) ==
    args.userId # None /\ BitNot(IndexOf(payload.users, args.userId)) # 0

\* SubscriptionServer onOperation for a groupAdded subscription issued on a
\* connection whose context identity is u
SubscribeGroupAdded(u, args) ==
    LET res == subscriptionLogic_groupAdded(args, OnOperationContext(u))
    IN  /\ Idle
        /\ u \in conns
        /\ res.out = "ok" => Len(gsubs) < MaxSubs
        /\ IF res.out = "ok"
           THEN /\ gsubs' = Append(gsubs, [user |-> u, args |-> args])
                /\ gqueue' = Append(gqueue, <<>>)
           ELSE UNCHANGED <<gsubs, gqueue>>
        /\ last' = Record("subscribeGroup", NoToken, u, args, "groupSubscription", res)
        /\ UNCHANGED <<clientVars, leaving, authVars, dbVars, conns, subs, queue, delivered, published,
                       gdelivered>>

\* the iterator of groupAdded subscription s takes its next event through
\* the filter
DeliverGroup(s) ==
    /\ s \in DOMAIN gsubs
    /\ gqueue[s] # <<>>
    /\ gqueue' = [gqueue EXCEPT ![s] = Tail(@)]
    /\ gdelivered' =
         IF groupAddedFilter(Head(gqueue[s]), gsubs[s].args)
         THEN gdelivered \cup {[sub |-> s, id |-> Head(gqueue[s]).id,
                                users |-> Head(gqueue[s]).users]}
         ELSE gdelivered
    /\ last' = Record("deliverGroup", NoToken, gsubs[s].user, [sub |-> s], "groupEvent",
                      Ok([payload |-> Head(gqueue[s]),
                          sent |-> groupAddedFilter(Head(gqueue[s]), gsubs[s].args)]))
    /\ UNCHANGED <<clientVars, leaving, authVars, dbVars, conns, subs, queue, delivered, published, gsubs>>

QueryArgs == {[id |-> i, email |-> e] : i \in Users \cup {None},
                                        e \in {Email(u) : u \in Users \cup {None}}}

NextAuth ==
    \/ \E u \in Users, ok \in BOOLEAN : Login(NoToken, Email(u), ok)
    \/ \E u \in Users : ChangePassword(u)
    \/ \E t \in Presentable, f \in UserFields, u \in Users : UserField(t, f, u)
    \/ \E t \in Presentable, a \in QueryArgs : UserQuery(t, a)
    \/ \E t \in Presentable : WsConnect(t)
    \/ Respond

SpecAuth == Init /\ [][NextAuth]_vars

\* user entities and the rows they own
NextData ==
    \/ \E t \in Presentable, f \in UserFields, u \in Users : UserField(t, f, u)
    \/ \E t \in Presentable, r \in {None, 1} : UpdateUser(t, r)
    \/ \E t \in Presentable, g \in GroupIds : CreateMessage(t, g)
    \/ \E t \in Presentable, g \in GroupIds : LeaveGroup(t, g)
    \/ Respond

SpecData == Init /\ [][NextData]_vars

\* the group-scoped mutations on the seeded group and on ids that name no group
NextGroup ==
    \/ \E t \in Presentable, g \in GroupIds : CreateMessage(t, g)
    \/ \E t \in Presentable, g \in GroupIds : DeleteGroup(t, g)
    \/ \E t \in Presentable, g \in GroupIds : LeaveGroup(t, g)
    \/ \E t \in Presentable, g \in GroupIds, n \in Names, m \in MsgIds \cup {None},
          lost \in BOOLEAN : UpdateGroup(t, g, n, m, lost)
    \/ Respond

SpecGroup == Init /\ [][NextGroup]_vars

\* every entry point called without a token, on data members have created
NextGate ==
    \/ \E t \in Presentable, g \in GroupIds : CreateMessage(t, g)
    \/ \E g \in GroupIds, n \in Names, m \in MsgIds \cup {None} :
          UpdateGroup(NoToken, g, n, m, FALSE)
    \/ \E g \in GroupIds : DeleteGroup(NoToken, g)
    \/ \E g \in GroupIds : LeaveGroup(NoToken, g)
    \/ \E ids \in SUBSET Users : CreateGroup(NoToken, "n0", ids)
    \/ \E r \in {None, 1} : UpdateUser(NoToken, r)
    \/ \E f \in UserFields, u \in Users : UserField(NoToken, f, u)
    \/ \E a \in QueryArgs : UserQuery(NoToken, a)
    \/ \E g \in GroupIds : GroupQuery(NoToken, g)
    \/ \E f \in GroupFields, g \in DOMAIN groups : GroupField(NoToken, f, g)
    \/ \E f \in MessageFields, m \in messages : MessageField(NoToken, f, m)
    \/ Respond

SpecGate == Init /\ [][NextGate]_vars

\* establishing messageAdded subscriptions
NextEstablish ==
    \/ \E t \in Presentable : WsConnect(t)
    \/ \E u \in Users, a \in SubArgs : SubscribeMessageAdded(u, a)
    \/ \E t \in Presentable, g \in GroupIds : LeaveGroup(t, g)
    \/ Respond

SpecEstablish == Init /\ [][NextEstablish]_vars

\* publishing and delivering messageAdded events
NextDeliver ==
    \/ \E t \in Presentable : WsConnect(t)
    \/ \E u \in Users, a \in SubArgs : SubscribeMessageAdded(u, a)
    \/ \E t \in Presentable, g \in GroupIds : CreateMessage(t, g)
    \/ \E s \in 1..MaxSubs : Deliver(s)
    \/ Respond

SpecDeliver == Init /\ [][NextDeliver]_vars

\* delivery to subscribers who leave their group
NextLeave ==
    \/ \E t \in Presentable : WsConnect(t)
    \/ \E u \in Users, a \in SubArgs : SubscribeMessageAdded(u, a)
    \/ \E t \in Presentable, g \in GroupIds : CreateMessage(t, g)
    \/ \E t \in Presentable, g \in GroupIds : LeaveGroup(t, g)
    \/ \E s \in 1..MaxSubs : Deliver(s)
    \/ Respond

SpecLeave == Init /\ [][NextLeave]_vars

\* one-group subscriptions under a fair event loop: every subscription's
\* iterator keeps taking the events queued for it, and a settled handler is
\* always answered
NextFanout ==
    \/ \E t \in Presentable : WsConnect(t)
    \/ \E u \in Users, g \in GroupIds :
          SubscribeMessageAdded(u, [given |-> TRUE, ids |-> <<g>>])
    \/ \E t \in Presentable, g \in GroupIds : CreateMessage(t, g)
    \/ \E s \in 1..MaxSubs : Deliver(s)
    \/ Respond

SpecFanoutFair ==
    /\ Init
    /\ [][NextFanout]_vars
    /\ \A s \in 1..MaxSubs : WF_vars(Deliver(s))
    /\ WF_vars(Respond)

\* creating groups and delivering groupAdded events
NextGroupAdded ==
    \/ \E t \in Presentable : WsConnect(t)
    \/ \E u \in Users, i \in Users \cup {None} : SubscribeGroupAdded(u, [userId |-> i])
    \/ \E t \in Presentable, ids \in SUBSET Users : CreateGroup(t, "n0", ids)
    \/ \E s \in 1..MaxSubs : DeliverGroup(s)
    \/ Respond

SpecGroupAdded == Init /\ [][NextGroupAdded]_vars

\* tokens of every kind at both transports
NextTransport ==
    \/ \E u \in Users, ok \in BOOLEAN : Login(NoToken, Email(u), ok)
    \/ \E u \in Users : ChangePassword(u)
    \/ \E t \in Presentable \cup Forged, a \in QueryArgs : UserQuery(t, a)
    \/ \E t \in Presentable \cup Forged : WsConnect(t)
    \/ Respond

SpecTransport == Init /\ [][NextTransport]_vars

\* ctx.user = Promise.resolve(user): what a request's context holds once its
\* login resolver has settled
ContextAfterLoginKept(ctxUser, login) == ctxUser
ContextAfterLogin(ctxUser, login) ==
    IF login.out = "ok" THEN Verify(login.data).claims.id ELSE ctxUser

\* one request: mutation { updateUser(registrationId) { id }
\*                        login(email, password) { email } }
\* the root fields run in order on one context; updateUser's check sees
\* the context built from the token, the email field of the user that login
\* returns sees the context login left behind
UpdateUserThenLogin(t, registrationId, email, passwordOk) ==
    LET ctxUser == HttpContext(t)
        first == getAuthenticatedUser(ctxUser)
        login == Resolvers_login(email, passwordOk)
        ctxAfter == ContextAfterLogin(ctxUser, login)
        second == IF login.out = "ok"
                  THEN userLogic_email(Verify(login.data).claims.id, ctxAfter)
                  ELSE login
        res == IF login.out = "ok"
               THEN Ok([first |-> IF first.out = "ok" THEN first.data ELSE None,
                        second |-> ctxAfter,
                        email |-> second.out])
               ELSE login
    IN  /\ Idle
        /\ regId' = IF JwtMiddleware(t) = "next" /\ first.out = "ok"
                    THEN [regId EXCEPT ![ctxUser] = registrationId]
                    ELSE regId
        /\ last' = Record("updateUserLogin", t, ctxUser,
                          [registrationId |-> registrationId, email |-> email,
                           password |-> passwordOk], "session", Http(t, res))
        /\ UNCHANGED <<clientVars, leaving, version, signupVars, dbVars, subVars>>

\* groups created, deleted and left, with leaveGroup calls overlapping
NextMembership ==
    \/ \E t \in Presentable, ids \in SUBSET Users : CreateGroup(t, "n0", ids)
    \/ \E t \in Presentable, g \in GroupIds : DeleteGroup(t, g)
    \/ \E t \in Presentable, g \in GroupIds : LeaveGroupRemoveUser(t, g)
    \/ \E call \in leaving : LeaveGroupGetUsers(call)
    \/ Respond

SpecMembership == Init /\ [][NextMembership]_vars

\* the client's root component receiving props
\* and its Messages screen, where results and events reach the cache in any
\* order
NextClient ==
    \/ \E nextUser \in PropsUsers : ComponentWillReceiveProps(nextUser)
    \/ \E mine \in BOOLEAN : MessageCreated(mine)
    \/ \E id \in 1..MaxSent : MutationUpdate(id)
    \/ \E id \in 1..MaxSent : UpdateQuery(id)

SpecClient == Init /\ [][NextClient]_vars

\* the group-scoped operations, on groups that exist and on ids that name
\* no group
NextScoped ==
    \/ \E t \in Presentable, g \in GroupIds : GroupQuery(t, g)
    \/ \E t \in Presentable, g \in GroupIds : CreateMessage(t, g)
    \/ \E t \in Presentable, g \in GroupIds : DeleteGroup(t, g)
    \/ \E t \in Presentable, g \in GroupIds : LeaveGroup(t, g)
    \/ \E t \in Presentable, g \in GroupIds, n \in Names, m \in MsgIds \cup {None} :
          UpdateGroup(t, g, n, m, FALSE)
    \/ Respond

SpecScoped == Init /\ [][NextScoped]_vars

\* connections opened with first-version tokens, password changes, and
\* subscription operations on the open connections
NextConnection ==
    \/ \E u \in Users : WsConnect(Sign(u, 1))
    \/ \E u \in Users : ChangePassword(u)
    \/ \E u \in Users, i \in Users \cup {None} : SubscribeGroupAdded(u, [userId |-> i])
    \/ \E u \in Users, g \in GroupIds :
          SubscribeMessageAdded(u, [given |-> TRUE, ids |-> <<g>>])
    \/ \E t \in Presentable, g \in GroupIds : LeaveGroup(t, g)
    \/ Respond

SpecConnection == Init /\ [][NextConnection]_vars

\* requests that update the caller and log in, between password changes
NextSession ==
    \/ \E t \in Presentable, r \in {None, 1}, u \in Users, ok \in BOOLEAN :
          UpdateUserThenLogin(t, r, Email(u), ok)
    \/ \E u \in Users : ChangePassword(u)
    \/ Respond

SpecSession == Init /\ [][NextSession]_vars

\* login and signup without a token; signups interleave between their lookup
\* and their insert
NextSignup ==
    \/ \E e \in Emails, ok \in BOOLEAN : Login(NoToken, e, ok)
    \/ \E e \in Emails : SignupLookup(NoToken, e)
    \/ \E i \in 1..MaxSignups : SignupCreate(i)
    \/ Respond

SpecSignup == Init /\ [][NextSignup]_vars

\* ===================================================== claims C1 .. C10

\* a well-signed token whose version differs from the stored one
Stale(t) == t.sig = "JWT_SECRET" /\ version[t.payload.id] # t.payload.version

\* C1: a call carrying a well-signed token whose version trails the stored
\* version of its user gets the user-less context: the guarded resolvers
\* answer Unauthorized, and a streaming connection attempt is refused with
\* "No User" and opens no connection.
C1_StaleTokenIsNone ==
    [][(last'.op \in {"userField", "user", "connect"} /\ Stale(last'.token)) =>
          /\ last'.ctx = None
          /\ (last'.op = "userField" /\ last'.arg.field \in SelfAccessFields)
                => last'.out = "Unauthorized"
          /\ last'.op = "user" => last'.out = "Unauthorized"
          /\ last'.op = "connect" => last'.out = "No User" /\ conns' = conns]_vars

C1_Witness ==
    /\ last.op = "userField"
    /\ Stale(last.token)
    /\ last.arg.field = "email"
    /\ last.arg.user = last.token.payload.id
    /\ last.out = "Unauthorized"

\* C2: for an identified caller A and a user entity B, each of email,
\* friends, groups, messages and registrationId answers Unauthorized without
\* data when A is not B, and answers A's own data when A is B.
C2_SelfAccessOnly ==
    (last.op = "userField" /\ last.arg.field \in SelfAccessFields /\ last.ctx # None) =>
        IF last.ctx # last.arg.user
        THEN last.out = "Unauthorized" /\ last.data = NoData
        ELSE /\ last.out = "ok"
             /\ last.arg.field = "email" => last.data.email = Email(last.ctx)
             /\ last.arg.field = "friends" => last.data.friends = Users \ {last.ctx}
             /\ last.arg.field = "groups" =>
                    last.data.groups = {g \in DOMAIN groups : <<g, last.ctx>> \in members}
             /\ last.arg.field = "messages" =>
                    last.data.messages = {m \in messages : m.userId = last.ctx}
             /\ last.arg.field = "registrationId" =>
                    last.data.registrationId = regId[last.ctx]

C2_Witness ==
    /\ last.op = "userField"
    /\ last.arg.field = "messages"
    /\ last.ctx # None
    /\ last.ctx # last.arg.user
    /\ \E m \in messages : m.userId = last.arg.user
    /\ last.out = "Unauthorized"

\* C3: createMessage by an identified caller A into group G succeeds exactly
\* when A is a member of G; it then stores one new message authored by A in
\* G and publishes that message once; otherwise it answers Unauthorized and
\* neither stores nor publishes anything.
C3_CreateMessageGated ==
    [][(last'.op = "createMessage" /\ last'.ctx # None) =>
          IF <<last'.arg.groupId, last'.ctx>> \in members
          THEN /\ last'.out = "ok"
               /\ \E m \in messages' \ messages :
                     /\ messages' = messages \cup {m}
                     /\ m.userId = last'.ctx
                     /\ m.groupId = last'.arg.groupId
                     /\ published' = Append(published, m)
          ELSE /\ last'.out = "Unauthorized"
               /\ messages' = messages
               /\ published' = published]_vars

C3_Witness ==
    /\ last.op = "createMessage"
    /\ last.out = "ok"
    /\ <<last.arg.groupId, last.ctx>> \in members
    /\ published = <<last.data.message>>
    /\ last.data.message \in messages

\* C4: deleteGroup, updateGroup and leaveGroup called by an identified user
\* who is not a member of the group answer Unauthorized and leave the group,
\* its membership, its messages and the read markers as they were.
C4_NonMemberMutationsRejected ==
    [][(/\ last'.op \in {"deleteGroup", "updateGroup", "leaveGroup"}
        /\ last'.ctx # None
        /\ <<last'.arg.id, last'.ctx>> \notin members) =>
          /\ last'.out = "Unauthorized"
          /\ UNCHANGED dbVars]_vars

\* C5: with the user-less context every resolver and entry point of the
\* logic layer answers Unauthorized and returns no data.
C5_NoneContextUnauthorized ==
    (/\ last.op \in {"userField", "groupField", "messageField", "user", "group",
                     "createMessage", "createGroup", "deleteGroup", "leaveGroup",
                     "updateGroup", "updateUser"}
     /\ last.ctx = None) =>
        last.out = "Unauthorized" /\ last.data = NoData

\* some requested id names a group the caller cannot reach
SomeInaccessible(args, u) ==
    \E i \in DOMAIN args.ids :
        ~(args.ids[i] \in DOMAIN groups /\ <<args.ids[i], u>> \in members)

\* C6: a messageAdded subscription whose groupIds hold at least one group the
\* caller is not a member of answers Unauthorized and establishes nothing.
C6_SubscribeNonMemberRefused ==
    [][(/\ last'.op = "subscribe"
        /\ last'.arg.given
        /\ SomeInaccessible(last'.arg, last'.ctx)) =>
          /\ last'.out = "Unauthorized"
          /\ subs' = subs
          /\ queue' = queue]_vars

C6_Witness ==
    /\ last.op = "subscribe"
    /\ last.arg.given
    /\ SomeInaccessible(last.arg, last.ctx)
    /\ \E i \in DOMAIN last.arg.ids : <<last.arg.ids[i], last.ctx>> \in members
    /\ last.out = "Unauthorized"

\* C7: a messageAdded subscription whose groupIds name only groups the
\* caller belongs to, repeats allowed, is established with the caller's
\* identity and the arguments as given.
C7_SubscribeMemberAccepted ==
    (/\ last.op = "subscribe"
     /\ last.arg.given
     /\ ~SomeInaccessible(last.arg, last.ctx)) =>
        /\ last.out = "ok"
        /\ last.data.subscription = [context |-> last.ctx, args |-> last.arg]

\* C8: an event is never delivered to a subscriber who was not a member of
\* the message's group when the message was published.
C8_NoDeliveryToNonMember == \A d \in delivered : d.entitled

\* subscription s covers group g and its user is a member of g
Covers(s, g) ==
    /\ s \in DOMAIN subs
    /\ g \in Range(subs[s].args.ids)
    /\ <<g, subs[s].user>> \in members

\* C9: once a member has created a message in a group, every subscription
\* already established by a member for that group eventually receives it.
C9_MemberEventuallyReceives ==
    \A s \in 1..MaxSubs, m \in MsgIds :
        (/\ last.op = "createMessage"
         /\ last.out = "ok"
         /\ last.data.message.id = m
         /\ Covers(s, last.data.message.groupId))
            ~> (\E d \in delivered : d.sub = s /\ d.id = m)

C9_Witness ==
    \E d \in delivered, m \in messages :
        /\ m.id = d.id
        /\ Covers(d.sub, m.groupId)
        /\ subs[d.sub].user # m.userId

\* C10: an event reaches a subscription only when the groupId of its message
\* is in the groupIds the subscription asked for; a subscription without
\* groupIds passes nothing.
C10_FilterByRequestedGroups ==
    /\ \A d \in delivered :
          \E m \in Range(published) :
              /\ m.id = d.id
              /\ subs[d.sub].args.given
              /\ m.groupId \in Range(subs[d.sub].args.ids)
    /\ \A g \in GroupIds :
          ~messageAddedFilter([id |-> 1, userId |-> 1, groupId |-> g], NoGroupIds)
    /\ (last.op = "deliver" /\ last.data.event.sent) =>
          last.data.event.payload.groupId \in Range(subs[last.arg.sub].args.ids)

C10_Witness ==
    /\ last.op = "deliver"
    /\ ~last.data.event.sent
    /\ last.data.event.payload.groupId \notin Range(subs[last.arg.sub].args.ids)

\* ===================================================== claims C11 .. C20

\* C11: a groupAdded subscription is established only for the connection's
\* own user id (any other userId answers Unauthorized and establishes
\* nothing), and a groupAdded event is sent to a subscription only when the
\* subscribing identity is in the member list the event carries.
C11_GroupAddedOnlyToMembers ==
    [][/\ last'.op = "subscribeGroup" =>
            /\ (last'.out = "ok") = (last'.arg.userId = last'.ctx)
            /\ last'.out # "ok" =>
                  last'.out = "Unauthorized" /\ gsubs' = gsubs /\ gqueue' = gqueue
       /\ \A d \in gdelivered' : gsubs'[d.sub].user \in Range(d.users)]_vars

C11_Witness ==
    \E d \in gdelivered :
        /\ gsubs[d.sub].user \in Range(d.users)
        /\ gsubs[d.sub].user # d.users[1]

\* the token names a stored user at that user's stored version, under the
\* server's signature
Matches(t) ==
    /\ t.sig = "JWT_SECRET"
    /\ t.payload.id \in Users
    /\ version[t.payload.id] = t.payload.version

\* C12: a streaming connection attempt is accepted, with the token's user as
\* context, exactly when its jwt verifies and a stored user matches the
\* token's id and version; without a jwt, with a jwt that does not verify or
\* with no matching user it is rejected, yields no context and opens no
\* connection.
C12_ConnectNeedsMatchingUser ==
    [][last'.op = "connect" =>
          IF Matches(last'.token)
          THEN /\ last'.out = "ok"
               /\ last'.ctx = last'.token.payload.id
               /\ conns' = conns \cup {last'.ctx}
          ELSE /\ last'.out \in {"No Token", "Invalid Token", "No User"}
               /\ last'.ctx = None
               /\ last'.data = NoData
               /\ conns' = conns]_vars

C12_Witness ==
    /\ last.op = "connect"
    /\ last.token.sig = "forged"
    /\ version[last.token.payload.id] = last.token.payload.version
    /\ last.out = "Invalid Token"

StoredEmails == {Email(u) : u \in Users} \cup {created[i].email : i \in DOMAIN created}

\* C13: a request without an authorization header is not an error: its
\* context identity is none, login succeeds exactly when the email is stored
\* and the password matches, and signup is refused only because the email is
\* already stored and otherwise completes with a token.
C13_AnonymousLoginAndSignup ==
    [][(last'.op \in {"login", "signup"} /\ last'.token.sig = "none") =>
          /\ last'.ctx = None
          /\ last'.op = "login" =>
                /\ last'.out = "ok" <=>
                      (last'.arg.email \in StoredEmails /\ last'.arg.password)
                /\ last'.out = "ok" => Verify(last'.data.token).ok
          /\ last'.op = "signup" =>
                /\ last'.out # "ok" =>
                      /\ last'.out = "email already exists"
                      /\ last'.arg.email \in StoredEmails
                /\ last'.out = "ok" => Verify(last'.data.token).ok]_vars

C13_Witness ==
    /\ last.op = "login"
    /\ last.token.sig = "none"
    /\ last.ctx = None
    /\ last.out = "ok"
    /\ \E i \in DOMAIN created : created[i].email = last.arg.email

\* C15: a login that fails observes the same error whether the email is
\* unknown or the password is wrong: the error of a failed login equals the
\* error of every other login that fails.
C15_LoginFailuresAlike ==
    (last.op = "login" /\ last.out # "ok") =>
        \A e \in Emails : Resolvers_login(e, FALSE).out = last.out

\* C16: a successful signup inserts exactly one identity, with a new id, the
\* requested email and version 1, and returns a token that verifies and
\* whose claims are that identity's id and email and version 1.
C16_SignupCreatesVersionOne ==
    [][(last'.op = "signup" /\ last'.out = "ok") =>
          LET row == created'[Len(created')]
          IN  /\ created' = Append(created, row)
              /\ row.version = 1
              /\ row.email = last'.arg.email
              /\ row.id \notin Users \cup {created[i].id : i \in DOMAIN created}
              /\ version' = version
              /\ Verify(last'.data.token).ok
              /\ Verify(last'.data.token).claims =
                    [id |-> row.id, email |-> row.email, version |-> 1]]_vars

C16_Witness ==
    /\ last.op = "signup"
    /\ last.out = "ok"
    /\ Len(created) = 2
    /\ Verify(last.data.token).claims.id = created[2].id

\* C17: a signup whose email belongs to a stored identity when it is looked
\* up fails with 'email already exists', inserts nothing, returns no token
\* and leaves the stored identities as they were; only a signup whose email
\* is not stored goes on to hash its password.
C17_SignupExistingEmailRefused ==
    [][/\ (last'.op = "signup" /\ last'.out # "ok") =>
             /\ last'.out = "email already exists"
             /\ last'.arg.email \in StoredEmails
             /\ last'.data = NoData
             /\ created' = created
             /\ hashing' = hashing
             /\ version' = version
       /\ Len(hashing') > Len(hashing) =>
             hashing'[Len(hashing')].email \notin StoredEmails]_vars

C17_Witness ==
    /\ last.op = "signup"
    /\ last.out = "email already exists"
    /\ last.data = NoData
    /\ \E i \in DOMAIN created : created[i].email = last.arg.email

\* C18: no two stored identities share an email, whatever the interleaving
\* of concurrent signups.
C18_EmailsUnique ==
    /\ \A i, j \in DOMAIN created : created[i].email = created[j].email => i = j
    /\ \A i \in DOMAIN created : created[i].email \notin {Email(u) : u \in Users}

\* C19: a token returned by a successful login verifies and claims the id,
\* the email and the stored version of the identity that logged in, and the
\* request context resolves it to that identity; any call presenting a
\* verified token whose version is still the stored one runs with the
\* token's identity as its context.
C19_LoginTokenResolves ==
    [][/\ (last'.op = "login" /\ last'.out = "ok") =>
             LET user == FindByEmail(last'.arg.email)
                 token == last'.data.token
             IN  /\ user.id # None
                 /\ Verify(token).ok
                 /\ Verify(token).claims =
                       [id |-> user.id, email |-> user.email, version |-> user.version]
                 /\ HttpContext(token) = user.id
       /\ (/\ last'.op \in {"user", "userField", "connect"}
           /\ Verify(last'.token).ok
           /\ version[last'.token.payload.id] = last'.token.payload.version) =>
             last'.ctx = last'.token.payload.id]_vars

C19_Witness ==
    /\ last.op = "login"
    /\ last.out = "ok"
    /\ Verify(last.data.token).claims.version = 2
    /\ HttpContext(last.data.token) = last.data.token.payload.id

C21_ConnectionIdentityFixed ==
    [][/\ last'.op = "changePassword" => conns' = conns
       /\ last'.op \in {"subscribe", "subscribeGroup"} =>
             /\ last'.ctx \in conns
             /\ last'.op = "subscribeGroup" =>
                   (last'.out = "ok" <=> last'.arg.userId = last'.ctx)
             /\ last'.op = "subscribe" =>
                   (last'.out = "ok" <=>
                       <<last'.arg.ids[1], last'.ctx>> \in members)]_vars

C21_Witness ==
    /\ last.op = "subscribeGroup"
    /\ last.out = "ok"
    /\ version[last.ctx] > 1
    /\ OnConnect(Sign(last.ctx, 1)).out = "No User"

C23_AbsentAndForeignGroupsAlike ==
    [][(/\ last'.op \in {"group", "createMessage", "deleteGroup", "leaveGroup",
                         "updateGroup"}
        /\ last'.ctx # None
        /\ LET id == IF last'.op = "createMessage" THEN last'.arg.groupId
                     ELSE last'.arg.id
           IN  id \notin DOMAIN groups \/ <<id, last'.ctx>> \notin members) =>
          /\ last'.op = "group" => last'.out = "ok" /\ last'.data.group = None
          /\ last'.op = "createMessage" => last'.out = "Unauthorized"
          /\ last'.op \in {"deleteGroup", "leaveGroup"} => last'.out = "TypeError"
          /\ last'.op = "updateGroup" =>
                IF last'.arg.lastRead = None THEN last'.out = "TypeError"
                ELSE last'.out = "ok" /\ last'.data.group = None]_vars

C23_Witness ==
    /\ last.op = "group"
    /\ last.ctx # None
    /\ last.arg.id \in DOMAIN groups
    /\ <<last.arg.id, last.ctx>> \notin members
    /\ last.out = "ok"
    /\ last.data.group = None

\* C24: whatever changes the logged-in user's group list went through, the
\* messageAdded subscription of the client is running and was created from
\* the current list: its groupIds are the user's current group ids.
C24_MessagesSubscriptionCurrent ==
    (propsUser.present /\ propsUser.groups # {}) =>
        /\ messagesSubscription.active
        /\ messagesSubscription.groupIds = propsUser.groups

\* C25: whenever componentWillReceiveProps has run with a user, a groupAdded
\* subscription for that user is running, also after a logout and a new
\* login.
C25_GroupSubscriptionActive ==
    propsUser.present =>
        /\ groupSubscription.active
        /\ groupSubscription.userId = propsUser.id

\* C26: in the cache of the Messages screen no two messages share an id,
\* whichever of a message's mutation result and subscription event arrives
\* first, and a message is in the cache once either of them has arrived.
C26_NoDuplicateMessages ==
    /\ \A i, j \in DOMAIN cacheMessages :
          cacheMessages[i] = cacheMessages[j] => i = j
    /\ \A id \in sentIds :
          id \in Range(cacheMessages) <=> (id \notin events \/ id \in own \ results)

C26_Witness ==
    \E id \in own :
        /\ id \notin results
        /\ id \notin events
        /\ id \in Range(cacheMessages)

C28_MessagesHaveGroup ==
    \A m \in messages : m.groupId \in DOMAIN groups

\* C29: when updateGroup called by a member of the group with the lastRead
\* value m (a message of the group) has resolved, the caller's lastRead
\* records for the group are exactly m, and the group's name is as it was.
C29_LastReadReplaced ==
    [][(/\ last'.op = "updateGroup"
        /\ last'.out = "ok"
        /\ last'.ctx # None
        /\ <<last'.arg.id, last'.ctx>> \in members
        /\ last'.arg.lastRead # None
        /\ \E m \in MessagesIn(last'.arg.id) : m.id = last'.arg.lastRead) =>
          /\ {m.id : m \in {mm \in messages' : /\ mm.groupId = last'.arg.id
                                               /\ <<last'.ctx, mm.id>> \in lastReads'}}
                = {last'.arg.lastRead}
          /\ groups' = groups]_vars

\* C30: the user query of an identified caller A returns A itself when the
\* id argument is A's id or the email argument is A's email, and otherwise
\* fails with Unauthorized and no data: it never returns another identity.
C30_UserQueryReturnsCaller ==
    (last.op = "user" /\ last.ctx # None) =>
        IF last.arg.id = last.ctx \/ last.arg.email = Email(last.ctx)
        THEN last.out = "ok" /\ last.data.user = last.ctx
        ELSE last.out = "Unauthorized" /\ last.data = NoData

C30_Witness ==
    /\ last.op = "user"
    /\ last.ctx # None
    /\ last.arg.id \in Users \ {last.ctx}
    /\ last.arg.email = Email(last.ctx)
    /\ last.out = "ok"
    /\ last.data.user = last.ctx

====
